---------------------------- MODULE Spec2Model ----------------------------
(***************************************************************************)
(* The Dialog bridge of the modeler (src/tasks/link-dependencies.js, the   *)
(* part from line 147 on): getDialogOptions builds the description of a    *)
(* native dialog from a symbolic type and options, showDialog hands it to  *)
(* the platform dialog primitive and maps the answer back, setDefaultPath  *)
(* stores the directory last used in the configuration store.              *)
(*                                                                         *)
(* Strings the code takes apart or puts together (paths, titles) are       *)
(* sequences of pieces: a path is the sequence of its separators "/" and   *)
(* its segment names, so that path.dirname and defaultPath + '/' + name    *)
(* are computed, not assumed.                                              *)
(***************************************************************************)
EXTENDS Integers, Sequences, FiniteSets, TLC

\* ---------------------------------------------------------------- values

\* The JavaScript value undefined, where a path or a string is expected.
Undefined == <<"undefined">>

\* An option field the caller did not give.
Absent == "absent"

\* The most files the user selects in one open dialog.
MaxSelect == 2

\* options.userDesktopPath, given to the constructor.
userDesktopPath == <<"/", "home", "/", "user", "/", "Desktop">>

\* The paths the platform file dialogs hand back.
PlatformPaths ==
  { <<"/", "home", "/", "user", "/", "foo.bpmn">>,
    <<"/", "home", "/", "user">>,
    <<"/", "c.bpmn">> }

\* The values config.get('defaultPath') can hold when the application starts:
\* nothing stored yet, or a directory stored by an earlier run.
PersistedPaths == { Undefined, <<"/", "srv", "/", "models">> }

\* The own keys of the table of line 180.
MessageBoxTypes ==
  { "contentChanged", "close", "importError", "unrecognizedFile", "existingFile",
    "reimportWarning", "namespace", "savingDenied" }

FileTypes == { "open", "save" }

DialogTypes == FileTypes \cup MessageBoxTypes

\* Type strings a caller can pass that are no key of the table: one that is no
\* property of the table object at all, and one that it inherits from
\* Object.prototype.
ForeignTypes == { "unknown-kind", "constructor" }

RequestTypes == DialogTypes \cup ForeignTypes

\* The options objects callers pass: none of the fields, some, or all.
NoOptions == [ name |-> Absent, fileType |-> Absent, errorDetails |-> Absent ]

Options ==
  { NoOptions,
    [ NoOptions EXCEPT !.name = "diagram.bpmn" ],
    [ NoOptions EXCEPT !.fileType = "bpmn" ],
    [ NoOptions EXCEPT !.name = "diagram.bpmn", !.fileType = "bpmn" ],
    [ NoOptions EXCEPT !.name = "diagram.bpmn", !.errorDetails = "unparsable" ],
    [ name |-> "other.dmn", fileType |-> "dmn", errorDetails |-> "unparsable" ] }

\* ------------------------------------------------------- library functions

\* path.dirname of Node (posix): the scan from the end for the last separator
\* that follows a segment; the result is the number of pieces kept, -1 if none.
RECURSIVE dirnameEnd(_, _, _)
dirnameEnd(p, i, matchedSlash) ==
  IF i < 2 THEN -1
  ELSE IF p[i] = "/"
       THEN IF ~matchedSlash THEN i - 1 ELSE dirnameEnd(p, i - 1, matchedSlash)
       ELSE dirnameEnd(p, i - 1, FALSE)

dirname(p) ==
  IF Len(p) = 0 THEN <<".">>
  ELSE LET hasRoot == p[1] = "/"
           end == dirnameEnd(p, Len(p), TRUE)
       IN IF end = -1 THEN (IF hasRoot THEN <<"/">> ELSE <<".">>)
          ELSE IF hasRoot /\ end = 1 THEN <<"/", "/">>
          ELSE SubSeq(p, 1, end)

\* ./util/filter-extensions: the file filter of each extension key, in the
\* order of the keys.
FilterOf(key) ==
  [ key |-> key,
    extensions |-> CASE key = "all" -> { "*" }
                     [] key = "supported" -> { "bpmn", "dmn", "cmmn" }
                     [] OTHER -> { key } ]

filterExtensions(keys) == [ i \in 1..Len(keys) |-> FilterOf(keys[i]) ]

\* ./util/ensure-opts: the expected option names that the options lack.
MissingOptions(expected, options) == { k \in expected : options[k] = Absent }

\* config.get(key, default) on the store.
configGet(store, default) == IF store = Undefined THEN default ELSE store

\* A JavaScript truthiness test of a string or undefined.
Truthy(s) == s # Undefined /\ Len(s) > 0


\* ------------------------------------------------------------ the dialogs

\* The object a table entry returns: the properties no entry sets are
\* undefined (an empty sequence for the lists).
\* kind tells which object it is: one built by a file entry, one built by a
\* message box entry, or the caller's own options object.
EmptySpec ==
  [ kind |-> "none", title |-> Undefined, message |-> Undefined, detail |-> Undefined,
    type |-> "undefined", buttons |-> <<>>, defaultPath |-> Undefined,
    properties |-> <<>>, filters |-> <<>>, noLink |-> FALSE ]

Button(id, label) == [ id |-> id, label |-> label ]

contentChanged ==
  [ EmptySpec EXCEPT
      !.kind = "messageBox",
      !.title = <<"File changed">>,
      !.message = <<"The file has been changed externally.", "\n", "Would you like to reload it?">>,
      !.type = "question",
      !.buttons = << Button("ok", "Reload"), Button("cancel", "Cancel") >> ]

open(defaultPath) ==
  [ EmptySpec EXCEPT
      !.kind = "file",
      !.title = <<"Open diagram">>,
      !.defaultPath = defaultPath,
      !.properties = <<"openFile", "multiSelections">>,
      !.filters = filterExtensions(<<"supported", "bpmn", "dmn", "cmmn", "all">>) ]

\* The mutant joins the directory and the name without the separator.
saveNoSeparator(defaultPath, options) ==
  [ EmptySpec EXCEPT
      !.kind = "file",
      !.title = <<"Save ", options.name, " as..">>,
      !.defaultPath = defaultPath \o <<options.name>>,
      !.filters = filterExtensions(<<options.fileType, "all">>) ]

save(defaultPath, options) ==
  [ EmptySpec EXCEPT
      !.kind = "file",
      !.title = <<"Save ", options.name, " as..">>,
      !.defaultPath = defaultPath \o <<"/">> \o <<options.name>>,
      !.filters = filterExtensions(<<options.fileType, "all">>) ]

\* The mutant lists Save first.
closeChangedOrder(options) ==
  [ EmptySpec EXCEPT
      !.kind = "messageBox",
      !.title = <<"Close diagram">>,
      !.message = <<"Save changes to ", options.name, " before closing?">>,
      !.type = "question",
      !.buttons = << Button("save", "Save"), Button("cancel", "Cancel"),
                     Button("discard", "Don't Save") >> ]

close(options) ==
  [ EmptySpec EXCEPT
      !.kind = "messageBox",
      !.title = <<"Close diagram">>,
      !.message = <<"Save changes to ", options.name, " before closing?">>,
      !.type = "question",
      !.buttons = << Button("cancel", "Cancel"), Button("save", "Save"),
                     Button("discard", "Don't Save") >> ]

importError(options) ==
  [ EmptySpec EXCEPT
      !.kind = "messageBox",
      !.type = "error",
      !.title = <<"Importing Error">>,
      !.buttons = << Button("cancel", "Close"), Button("ask-forum", "Ask in Forum") >>,
      !.message = <<"Ooops, we could not display this diagram!">>,
      !.detail = << options.errorDetails, "\n", "", "\n",
                    "Do you believe \"", options.name, "\" is valid BPMN or DMN diagram?",
                    "\n", "", "\n",
                    "Post this error with your diagram in our forum for help." >> ]

\* The mutant gives the message box no buttons.
unrecognizedFileNoButtons(options) ==
  [ EmptySpec EXCEPT
      !.kind = "messageBox",
      !.type = "warning",
      !.title = <<"Unrecognized file format">>,
      !.message = <<"The file \"", options.name, "\" is not a BPMN or DMN file.">> ]

unrecognizedFile(options) ==
  [ EmptySpec EXCEPT
      !.kind = "messageBox",
      !.type = "warning",
      !.title = <<"Unrecognized file format">>,
      !.buttons = << Button("cancel", "Close") >>,
      !.message = <<"The file \"", options.name, "\" is not a BPMN or DMN file.">> ]

existingFile(options) ==
  [ EmptySpec EXCEPT
      !.kind = "messageBox",
      !.type = "warning",
      !.title = <<"Existing file">>,
      !.buttons = << Button("cancel", "Cancel"), Button("no-overwrite", "No"),
                     Button("overwrite", "Overwrite") >>,
      !.message = <<"The file \"", options.name,
                    "\" already exists. Do you want to overwrite it?">> ]

reimportWarning ==
  [ EmptySpec EXCEPT
      !.kind = "messageBox",
      !.type = "warning",
      !.title = <<"Import warning">>,
      !.buttons = << Button("cancel", "Cancel"), Button("switch", "Switch"),
                     Button("discard", "Discard changes") >>,
      !.message = <<"Your diagram's undo history will be lost due to xml changes.",
                    "\n", "", "\n", "Do you want to proceed?">> ]

namespace ==
  [ EmptySpec EXCEPT
      !.kind = "messageBox",
      !.type = "warning",
      !.title = <<"Deprecated <activiti> namespace detected">>,
      !.buttons = << Button("cancel", "Cancel"), Button("no", "No"), Button("yes", "Yes") >>,
      !.message = <<"Would you like to convert your diagram to the <camunda> namespace?">>,
      !.detail = <<"This will allow you to maintain execution related properties.",
                   "\n", "", "\n",
                   "<camunda> namespace support works from Camunda BPM versions 7.4.0, 7.3.3, 7.2.6 onwards.">> ]

savingDenied ==
  [ EmptySpec EXCEPT
      !.kind = "messageBox",
      !.type = "warning",
      !.title = <<"Cannot save file">>,
      !.buttons = << Button("cancel", "Cancel"), Button("save-as", "Save File as..") >>,
      !.message = <<"We cannot save or overwrite the current file.", "\n",
                    "Do you want to save the file as.. ?">> ]

\* Object(opts), which is what the inherited property "constructor" of the
\* table object is: the caller's options object itself.
ObjectOf(options) == [ EmptySpec EXCEPT !.kind = "options" ]

\* The option names each entry passes to ensureOptions; the mutant forgets
\* fileType for save.
RequiredOptionsNoFileType(type) ==
  CASE type = "save" -> { "name" }
    [] type = "close" -> { "name" }
    [] type = "importError" -> { "name", "errorDetails" }
    [] type = "unrecognizedFile" -> { "name" }
    [] type = "existingFile" -> { "name" }
    [] OTHER -> {}

RequiredOptions(type) ==
  CASE type = "save" -> { "name", "fileType" }
    [] type = "close" -> { "name" }
    [] type = "importError" -> { "name", "errorDetails" }
    [] type = "unrecognizedFile" -> { "name" }
    [] type = "existingFile" -> { "name" }
    [] OTHER -> {}

\* What this._dialogs[type] is: an own entry of the table, a function the
\* table object inherits, or undefined.
Lookup(type) ==
  IF type \in DialogTypes THEN "entry"
  ELSE IF type = "constructor" THEN "inherited"
  ELSE "undefined"

\* The body of the table entry `type`, after its ensureOptions call; the
\* closures of the table share the defaultPath read when the table was built.
Entry(type, defaultPath, options) ==
  CASE type = "contentChanged" -> contentChanged
    [] type = "open" -> open(defaultPath)
    [] type = "save" -> save(defaultPath, options)
    [] type = "close" -> close(options)
    [] type = "importError" -> importError(options)
    [] type = "unrecognizedFile" -> unrecognizedFile(options)
    [] type = "existingFile" -> existingFile(options)
    [] type = "reimportWarning" -> reimportWarning
    [] type = "namespace" -> namespace
    [] type = "savingDenied" -> savingDenied

\* The table getDialogOptions assigns to this._dialogs, given the table the
\* object holds already: the code builds a new one on every call. A table is
\* known by the defaultPath its closures captured. The mutant builds the table
\* once and keeps it.
DialogsTableKept(held, defaultPath) ==
  IF held # Undefined THEN held ELSE defaultPath

DialogsTable(held, defaultPath) == defaultPath

\* getDialogOptions(type, opts) of a Dialog whose store holds `store` and
\* whose _dialogs field holds `held`: the table it leaves in this._dialogs
\* and what the call of the entry does (the object returned, or the error
\* thrown).
getDialogOptions(type, opts, store, held) ==
  LET defaultPath == configGet(store, userDesktopPath)
      table == DialogsTable(held, defaultPath)
      found == Lookup(type)
      missing == MissingOptions(RequiredOptions(type), opts)
  IN  IF found = "undefined"
      THEN [ dialogs |-> table, outcome |-> "throw", error |-> "TypeError",
             missing |-> {}, spec |-> EmptySpec ]
      ELSE IF found = "inherited"
      THEN [ dialogs |-> table, outcome |-> "return", error |-> "none",
             missing |-> {}, spec |-> ObjectOf(opts) ]
      ELSE IF missing # {}
      THEN [ dialogs |-> table, outcome |-> "throw", error |-> "MissingOption",
             missing |-> missing, spec |-> EmptySpec ]
      ELSE [ dialogs |-> table, outcome |-> "return", error |-> "none",
             missing |-> {}, spec |-> Entry(type, table, opts) ]


\* ------------------------------------------------------------- the state

VARIABLES
  config,       \* the value the configuration store holds under 'defaultPath'
  defaultPath,  \* this.defaultPath of the Dialog
  _dialogs,     \* this._dialogs: the table last built, or undefined
  call          \* the last call of the Dialog and what it did

vars == << config, defaultPath, _dialogs, call >>

\* A value a platform primitive or showDialog returns: undefined, a path
\* (string), a list of paths (array), a button index (number) or a button
\* identifier (id).
Value(kind, paths, index, id) ==
  [ kind |-> kind, paths |-> paths, index |-> index, id |-> id ]

UndefinedValue == Value("undefined", <<>>, -1, "")

\* The lists of 1..n paths an open dialog returns.
RECURSIVE PathLists(_)
PathLists(n) ==
  IF n = 0 THEN {}
  ELSE { <<p>> : p \in PlatformPaths }
       \cup PathLists(n - 1)
       \cup { Append(l, p) : l \in PathLists(n - 1), p \in PlatformPaths }

\* What the user can select in an open dialog.
OpenSelections == PathLists(MaxSelect)

\* `if (result ...)`: undefined and the empty string are falsy.
TruthyValue(v) ==
  CASE v.kind = "undefined" -> FALSE
    [] v.kind = "string" -> Len(v.paths[1]) > 0
    [] OTHER -> TRUE

\* ------------------------------------------------------------ the methods

\* setDefaultPath(filenames): the store and this.defaultPath it leaves, and
\* the values it passed to config.set.
setDefaultPath(filenames, store, thisDefaultPath) ==
  LET chosen == IF Len(filenames.paths) = 0 THEN Undefined ELSE filenames.paths[1]
  IN  IF Truthy(thisDefaultPath) /\ thisDefaultPath = chosen
      THEN [ store |-> store, defaultPath |-> thisDefaultPath, sets |-> <<>> ]
      ELSE [ store |-> dirname(chosen), defaultPath |-> dirname(chosen),
             sets |-> << dirname(chosen) >> ]

\* The platform primitive showDialog calls for a type; the mutant opens the
\* open dialog for a save.
PrimitiveForOpenOnly(type) ==
  IF type \in FileTypes THEN "showOpenDialog" ELSE "showMessageBox"

PrimitiveFor(type) ==
  IF type = "open" THEN "showOpenDialog"
  ELSE IF type = "save" THEN "showSaveDialog"
  ELSE "showMessageBox"

\* map(buttons, button => button.label)
Labels(buttons) == [ i \in 1..Len(buttons) |-> buttons[i].label ]

\* buttons[result].id, for a result the button list has; the mutant returns
\* what the platform showed, the label.
ButtonChoiceLabel(buttons, index) == buttons[index + 1].label

ButtonChoice(buttons, index) == buttons[index + 1].id

\* Whether showDialog stores the path: `result && (type === 'open' || type
\* === 'save')`; the mutant stores on any answer of a file dialog.
StoresPathAlways(type, result) == type \in FileTypes

StoresPath(type, result) == TruthyValue(result) /\ type \in FileTypes

\* What the platform can answer to a primitive called with `passed`.
Responses(primitive, passed) ==
  CASE primitive = "showOpenDialog" ->
         { UndefinedValue } \cup { Value("array", l, -1, "") : l \in OpenSelections }
    [] primitive = "showSaveDialog" ->
         { UndefinedValue } \cup { Value("string", <<p>>, -1, "") : p \in PlatformPaths \cup { <<>> } }
    [] primitive = "showMessageBox" ->
         { Value("number", <<>>, i, "") :
             i \in 0 .. (IF Len(passed.buttons) = 0 THEN 0 ELSE Len(passed.buttons) - 1) }

\* The record of a call.
Call(op, type, opts, storeBefore, built, primitives, passed, response, outcome, error, result, sets) ==
  [ op |-> op, type |-> type, opts |-> opts, storeBefore |-> storeBefore,
    spec |-> built.spec, missing |-> built.missing,
    primitives |-> primitives, passed |-> passed, response |-> response,
    outcome |-> outcome, error |-> error, result |-> result, sets |-> sets ]

NoBuild == [ spec |-> EmptySpec, missing |-> {} ]

\* showDialog(type, opts) with the platform answering `response`: the fields
\* of the Dialog and the store it leaves, and the record of the call.
showDialog(type, opts, response, store, thisDefaultPath, held) ==
  LET built == getDialogOptions(type, opts, store, held)
      buttons == built.spec.buttons
      passed == [ built.spec EXCEPT !.noLink = TRUE, !.buttons = Labels(buttons) ]
      primitive == PrimitiveFor(type)
      \* the answer of the primitive, mapped to a button for a message box
      result == IF primitive = "showMessageBox"
                THEN Value("id", <<>>, -1, ButtonChoice(buttons, response.index))
                ELSE response
      set == IF StoresPath(type, result)
             THEN setDefaultPath(result, store, thisDefaultPath)
             ELSE [ store |-> store, defaultPath |-> thisDefaultPath, sets |-> <<>> ]
  IN  IF built.outcome = "throw"
      THEN \* getDialogOptions threw: nothing else ran
           [ store |-> store, defaultPath |-> thisDefaultPath, dialogs |-> built.dialogs,
             call |-> Call("showDialog", type, opts, store, built, <<>>, EmptySpec,
                           UndefinedValue, "throw", built.error, UndefinedValue, <<>>) ]
      ELSE IF primitive = "showMessageBox" /\ response.index + 1 \notin DOMAIN buttons
      THEN \* buttons[result] is undefined (or buttons is): reading .id throws
           [ store |-> store, defaultPath |-> thisDefaultPath, dialogs |-> built.dialogs,
             call |-> Call("showDialog", type, opts, store, built, <<primitive>>, passed,
                           response, "throw", "TypeError", UndefinedValue, <<>>) ]
      ELSE [ store |-> set.store, defaultPath |-> set.defaultPath, dialogs |-> built.dialogs,
             call |-> Call("showDialog", type, opts, store, built, <<primitive>>, passed,
                           response, "return", "none", result, set.sets) ]

\* The answers the platform can give in a showDialog(type, opts) call: those
\* of the primitive called, or none when the call throws before.
ResponsesTo(type, opts, store, held) ==
  LET built == getDialogOptions(type, opts, store, held)
  IN  IF built.outcome = "throw" THEN { UndefinedValue }
      ELSE Responses(PrimitiveFor(type),
                     [ built.spec EXCEPT !.noLink = TRUE,
                                         !.buttons = Labels(built.spec.buttons) ])

\* ------------------------------------------------------------ the actions

\* A caller builds a dialog description.
GetDialogOptions(type, opts) ==
  \E built \in { getDialogOptions(type, opts, config, _dialogs) } :
      /\ _dialogs' = built.dialogs
      /\ call' = Call("getDialogOptions", type, opts, config, built, <<>>, EmptySpec,
                      UndefinedValue, built.outcome, built.error, UndefinedValue, <<>>)
      /\ UNCHANGED << config, defaultPath >>

\* A caller shows a dialog; the user answers it.
ShowDialog(type, opts) ==
  \E response \in ResponsesTo(type, opts, config, _dialogs) :
    \E done \in { showDialog(type, opts, response, config, defaultPath, _dialogs) } :
        /\ config' = done.store
        /\ defaultPath' = done.defaultPath
        /\ _dialogs' = done.dialogs
        /\ call' = done.call

\* ------------------------------------------------------------ the claims

\* The last call returned a dialog description (from getDialogOptions, or
\* inside showDialog).
Built == call.op \in { "getDialogOptions", "showDialog" } /\ call.spec.kind # "none"

\* showDialog returned a path or paths chosen in a file dialog.
ChosePath ==
  /\ call.op = "showDialog"
  /\ call.type \in FileTypes
  /\ call.outcome = "return"
  /\ TruthyValue(call.result)

ButtonIds(buttons) == [ i \in 1..Len(buttons) |-> buttons[i].id ]

FilterKeys(filters) == [ i \in 1..Len(filters) |-> filters[i].key ]

\* C1: whenever showDialog('open' | 'save') returns a result that is not
\* cancelled, the store holds the directory of the chosen path (of the first
\* of several), and the description built next for 'open' has that directory
\* as its defaultPath.
C1_StoreHoldsChosenDirectory ==
  ChosePath =>
    /\ config = dirname(call.result.paths[1])
    /\ getDialogOptions("open", NoOptions, config, _dialogs).spec.defaultPath
         = dirname(call.result.paths[1])

\* C2: the stored defaultPath changes, and config.set is called, only in a
\* showDialog of open or save whose result is not cancelled; a cancelled open
\* or save returns the empty answer of the platform as it is; a call of any
\* other type never writes the store.
C2_OnlyChosenPathWritesStore ==
  [][ /\ (config' # config \/ call'.sets # <<>>) =>
           /\ call'.op = "showDialog"
           /\ call'.type \in FileTypes
           /\ call'.outcome = "return"
           /\ TruthyValue(call'.result)
      /\ ( /\ call'.op = "showDialog"
           /\ call'.type \in FileTypes
           /\ call'.primitives # <<>>
           /\ ~TruthyValue(call'.response) ) =>
           /\ call'.outcome = "return"
           /\ call'.result = call'.response
           /\ call'.sets = <<>>
           /\ config' = config
      /\ call'.type \notin FileTypes => (call'.sets = <<>> /\ config' = config)
    ]_vars

\* A save dialog was cancelled: the caller got undefined and the store kept the
\* directory an earlier call stored.
C2_Witness ==
  /\ call.op = "showDialog"
  /\ call.type = "save"
  /\ call.primitives = <<"showSaveDialog">>
  /\ call.response = UndefinedValue
  /\ call.result = UndefinedValue
  /\ call.sets = <<>>
  /\ config = <<"/", "home", "/", "user">>

\* C3: for a message box type and a button index the platform returns within
\* the buttons shown, showDialog returns the id of the button at that index in
\* the description getDialogOptions built; index 1 of close is "save".
C3_IndexMapsToButtonId ==
  ( /\ call.op = "showDialog"
    /\ call.type \in MessageBoxTypes
    /\ call.primitives # <<>>
    /\ call.response.index + 1 \in DOMAIN call.spec.buttons ) =>
      /\ call.outcome = "return"
      /\ call.result.kind = "id"
      /\ call.result.id = call.spec.buttons[call.response.index + 1].id
      /\ call.passed.buttons[call.response.index + 1]
           = call.spec.buttons[call.response.index + 1].label
      /\ (call.type = "close" /\ call.response.index = 1) => call.result.id = "save"

C3_Witness ==
  /\ call.op = "showDialog"
  /\ call.type = "close"
  /\ call.response.index = 1
  /\ call.outcome = "return"
  /\ call.result.id = "save"

\* The button identifiers of each type, in order.
C4_FixedButtonIds(type) ==
  CASE type = "contentChanged" -> <<"ok", "cancel">>
    [] type = "close" -> <<"cancel", "save", "discard">>
    [] type = "importError" -> <<"cancel", "ask-forum">>
    [] type = "unrecognizedFile" -> <<"cancel">>
    [] type = "existingFile" -> <<"cancel", "no-overwrite", "overwrite">>
    [] type = "reimportWarning" -> <<"cancel", "switch", "discard">>
    [] type = "namespace" -> <<"cancel", "no", "yes">>
    [] type = "savingDenied" -> <<"cancel", "save-as">>
    [] OTHER -> <<>>

\* C4: the description built for a type with its options complete has the
\* fixed button identifiers of that type, in order, whatever the options hold
\* and whatever was called before; for close they are cancel, save, discard.
C4_ButtonsFixedPerType ==
  (Built /\ call.type \in DialogTypes) =>
    /\ ButtonIds(call.spec.buttons) = C4_FixedButtonIds(call.type)
    /\ \A opts \in Options :
         LET again == getDialogOptions(call.type, opts, config, _dialogs)
         IN  again.outcome = "return" =>
               ButtonIds(again.spec.buttons) = ButtonIds(call.spec.buttons)

\* close, built with another name and after an earlier call stored a path.
C4_Witness ==
  /\ Built
  /\ call.op = "getDialogOptions"
  /\ call.type = "close"
  /\ call.opts.name = "other.dmn"
  /\ call.storeBefore = <<"/", "home">>
  /\ ButtonIds(call.spec.buttons) = <<"cancel", "save", "discard">>

\* The option fields each type requires.
C5_RequiredFields(type) ==
  CASE type = "save" -> { "name", "fileType" }
    [] type = "close" -> { "name" }
    [] type = "importError" -> { "name", "errorDetails" }
    [] type = "unrecognizedFile" -> { "name" }
    [] type = "existingFile" -> { "name" }
    [] OTHER -> {}

\* C5: a call whose options lack a field its type requires throws the
\* missing-option error while the description is built: no platform primitive
\* is called, config.set is not called and the store is as before; and the
\* fields found missing are among the fixed required fields of the type.
C5_MissingOptionFailsFirst ==
  /\ ( /\ call.op \in { "getDialogOptions", "showDialog" }
       /\ \E k \in C5_RequiredFields(call.type) : call.opts[k] = Absent ) =>
         /\ call.outcome = "throw"
         /\ call.error = "MissingOption"
         /\ call.missing = { k \in C5_RequiredFields(call.type) : call.opts[k] = Absent }
         /\ call.primitives = <<>>
         /\ call.sets = <<>>
         /\ config = call.storeBefore
  /\ call.error = "MissingOption" =>
       \E k \in C5_RequiredFields(call.type) : call.opts[k] = Absent

\* showDialog('save', { name: 'diagram.bpmn' }) failed for the missing fileType.
C5_Witness ==
  /\ call.op = "showDialog"
  /\ call.type = "save"
  /\ call.opts.name = "diagram.bpmn"
  /\ call.opts.fileType = Absent
  /\ call.outcome = "throw"
  /\ call.error = "MissingOption"
  /\ call.missing = { "fileType" }

\* C6: showDialog with a type that is none of the dialog types fails, calls no
\* platform primitive and leaves the store as it was.
C6_UnknownTypeFailsBeforePlatform ==
  (call.op = "showDialog" /\ call.type \notin DialogTypes) =>
    /\ call.outcome = "throw"
    /\ call.primitives = <<>>
    /\ call.sets = <<>>
    /\ config = call.storeBefore

\* C7: a call of getDialogOptions leaves the fields of the Dialog and the store
\* as they were.
C7_GetDialogOptionsChangesNothing ==
  [][ call'.op = "getDialogOptions" => UNCHANGED << config, defaultPath, _dialogs >> ]_vars

\* C8: the description built for open asks for files only and for multiple
\* selection, filters on the supported extensions with all files last, and
\* has the stored defaultPath as its defaultPath, the user desktop path when
\* the store holds none.
C8_OpenSpec ==
  (Built /\ call.type = "open") =>
    /\ call.spec.properties = <<"openFile", "multiSelections">>
    /\ FilterKeys(call.spec.filters) = <<"supported", "bpmn", "dmn", "cmmn", "all">>
    /\ call.spec.filters[1].extensions = { "bpmn", "dmn", "cmmn" }
    /\ call.spec.filters[5].extensions = { "*" }
    /\ call.spec.defaultPath
         = (IF call.storeBefore = Undefined THEN userDesktopPath ELSE call.storeBefore)
    /\ call.op = "showDialog" => call.passed.defaultPath = call.spec.defaultPath

\* open, built after an earlier call stored /home/user.
C8_Witness ==
  /\ Built
  /\ call.type = "open"
  /\ call.storeBefore = <<"/", "home", "/", "user">>
  /\ call.spec.defaultPath = <<"/", "home", "/", "user">>
  /\ "multiSelections" \in { call.spec.properties[i] : i \in DOMAIN call.spec.properties }

C10_Primitive(type) ==
  CASE type = "open" -> "showOpenDialog"
    [] type = "save" -> "showSaveDialog"
    [] OTHER -> "showMessageBox"

\* C10: a showDialog that returns has called exactly one platform primitive,
\* the one of its type, with the description built from the type, the options
\* and the stored defaultPath; what the Dialog keeps afterwards is derived from
\* the stored defaultPath alone: its table is the one built in this call and
\* its own defaultPath, once set, is the stored one.
C10_SingleRoundTrip ==
  /\ (call.op = "showDialog" /\ call.outcome = "return") =>
       /\ call.primitives = << C10_Primitive(call.type) >>
       /\ call.passed.noLink
       /\ call.passed.title = call.spec.title
       /\ call.passed.defaultPath = call.spec.defaultPath
  /\ (call.op = "showDialog" /\ call.outcome = "throw") => Len(call.primitives) <= 1
  /\ call.op # "none" =>
       _dialogs = (IF call.storeBefore = Undefined THEN userDesktopPath ELSE call.storeBefore)
  /\ defaultPath \in { Undefined, config }

\* A save that returned the chosen path after one call of showSaveDialog.
C10_Witness ==
  /\ call.op = "showDialog"
  /\ call.type = "save"
  /\ call.outcome = "return"
  /\ call.primitives = <<"showSaveDialog">>
  /\ call.result.kind = "string"
  /\ call.result.paths = << <<"/", "c.bpmn">> >>
  /\ config = <<"/">>


\* C11: in every reachable state the description built for a message box type
\* has at least one button: the one the last call built, and the one each
\* message box type would build from the state as it is.
C11_MessageBoxHasButtons ==
  /\ (Built /\ call.type \in MessageBoxTypes) =>
       /\ Len(call.spec.buttons) > 0
       /\ call.op = "showDialog" => Len(call.passed.buttons) > 0
  /\ \A type \in MessageBoxTypes, opts \in Options :
       LET built == getDialogOptions(type, opts, config, _dialogs)
       IN  built.outcome = "return" => Len(built.spec.buttons) > 0

\* The message box with the fewest buttons was built.
C11_Witness ==
  /\ Built
  /\ call.type = "unrecognizedFile"
  /\ ButtonIds(call.spec.buttons) = <<"cancel">>


\* ================================================================= *
\* StartInstancePlugin
\* (src/client/src/plugins/zeebe-plugin/start-instance-plugin/StartInstancePlugin.js)
\* ================================================================= *

\* The most startInstance calls of one run of the model, and the most times
\* the overlay is closed.
MaxStarts == 2

MaxCancels == 2

\* What the receiver of the 'deploy' message passes to body.done: no
\* deployment result (the deployment was cancelled), a result with success
\* false, or a result with success true for one of the two kinds of endpoint.
DeployResults == { "cancelled", "failed", "deployed-cloud", "deployed-self-managed" }

\* What zeebeAPI.run does: resolve with a result with success true or false,
\* or reject.
RunOutcomes == { "success", "failure", "rejected" }

VARIABLES
  activeButton,   \* this.state.activeButton
  instances,      \* the startInstance calls: where each is and what it got
  cancels,        \* how many 'cancel' messages were broadcast
  openDeploys,    \* the calls whose 'deploy' message no close event followed
  event           \* the handler that ran last

pluginVars == << activeButton, instances, cancels, openDeploys, event >>

\* A startInstance call: pc is where it is (idle: not called yet), deferred
\* what its promise of deployActiveTab resolved with, run what became of its
\* zeebeAPI.run call, notification the content of the notification it
\* displayed.
Instance(pc, deferred, run, notification) ==
  [ pc |-> pc, deferred |-> deferred, run |-> run, notification |-> notification ]

NotStarted == Instance("idle", "pending", "none", "none")

\* The initial state of the component (lines 30-34, activeButton false).
PluginInit ==
  /\ activeButton = FALSE
  /\ instances = [ i \in 1..MaxStarts |-> NotStarted ]
  /\ cancels = 0
  /\ openDeploys = {}
  /\ event = "none"

\* `!deploymentResult || !deploymentResult.success`; the mutant forgets the
\* second test.
DeploymentMissing(result) == result = "cancelled"

DeploymentCancelledOrFailed(result) == result \in { "cancelled", "failed" }

\* The content of the notification: a CloudLink for a Camunda Cloud endpoint.
NotificationContent(result) ==
  IF result = "deployed-cloud" THEN "CloudLink" ELSE "null"

\* The activeButton the close handlers set; the mutant of onOverlayClose only
\* broadcasts.
onOverlayCloseKeepsButton(active) == active

onOverlayCloseButton(active) == FALSE

\* startInstance(), up to its await: deployActiveTab sets activeButton,
\* broadcasts 'deploy' with a body holding the call's own done and onClose,
\* and returns the promise the call waits for.
StartInstance(i) ==
  /\ instances[i].pc = "idle"
  /\ \A j \in 1..(i - 1) : instances[j].pc # "idle"
  /\ instances' = [ instances EXCEPT ![i].pc = "awaitDeploy" ]
  /\ activeButton' = TRUE
  /\ openDeploys' = openDeploys \cup { i }
  /\ event' = "deploy"
  /\ UNCHANGED cancels

\* The receiver of the 'deploy' message calls the done of call i: the promise
\* resolves with the first value it is given.
Done(i, result) ==
  /\ instances[i].pc # "idle"
  /\ instances' = [ instances EXCEPT
                      ![i].deferred = IF @ = "pending" THEN result ELSE @ ]
  /\ event' = "done"
  /\ UNCHANGED << activeButton, cancels, openDeploys >>

\* startInstance() after the await: it returns on a missing or failed
\* deployment and calls startProcessInstance, which calls zeebeAPI.run,
\* otherwise.
AfterDeploy(i) ==
  /\ instances[i].pc = "awaitDeploy"
  /\ instances[i].deferred # "pending"
  /\ instances' = [ instances EXCEPT ![i] =
                      IF DeploymentCancelledOrFailed(instances[i].deferred)
                      THEN [ instances[i] EXCEPT !.pc = "returned" ]
                      ELSE [ instances[i] EXCEPT !.pc = "awaitRun", !.run = "pending" ] ]
  /\ event' = "afterDeploy"
  /\ UNCHANGED << activeButton, cancels, openDeploys >>

\* startProcessInstance after zeebeAPI.run settled: a rejection ends the call,
\* any result is followed by the 'Process instance started' notification.
AfterRun(i, outcome) ==
  /\ instances[i].pc = "awaitRun"
  /\ instances' = [ instances EXCEPT ![i] =
                      IF outcome = "rejected"
                      THEN [ instances[i] EXCEPT !.pc = "rejected", !.run = outcome ]
                      ELSE [ instances[i] EXCEPT
                               !.pc = "returned", !.run = outcome,
                               !.notification = NotificationContent(instances[i].deferred) ] ]
  /\ event' = "afterRun"
  /\ UNCHANGED << activeButton, cancels, openDeploys >>

\* onOverlayClose: broadcasts 'cancel' and unsets activeButton.
OnOverlayClose ==
  /\ cancels < MaxCancels
  /\ cancels' = cancels + 1
  /\ activeButton' = onOverlayCloseButton(activeButton)
  /\ openDeploys' = {}
  /\ event' = "overlayClose"
  /\ UNCHANGED instances

\* The receiver of the 'deploy' message of call i calls body.onClose.
OnClose(i) ==
  /\ instances[i].pc # "idle"
  /\ activeButton' = FALSE
  /\ openDeploys' = openDeploys \ { i }
  /\ event' = "onClose"
  /\ UNCHANGED << instances, cancels >>

\* C13: zeebeAPI.run is called and a notification displayed for a
\* startInstance call only after the done of that call delivered a deployment
\* with success true; a call whose deployment was cancelled or failed has
\* returned without a run and without a notification.
C13_RunOnlyAfterOwnDeployment ==
  \A i \in 1..MaxStarts :
    /\ (instances[i].run # "none" \/ instances[i].notification # "none") =>
         instances[i].deferred \in { "deployed-cloud", "deployed-self-managed" }
    /\ instances[i].notification # "none" => instances[i].run \in { "success", "failure" }
    /\ (instances[i].pc # "awaitDeploy" /\ instances[i].deferred \in { "cancelled", "failed" }) =>
         /\ instances[i].pc = "returned"
         /\ instances[i].run = "none"
         /\ instances[i].notification = "none"

\* The first call ended on a failed deployment while the second, deployed,
\* ran and notified.
C13_Witness ==
  /\ instances[1].pc = "returned"
  /\ instances[1].deferred = "failed"
  /\ instances[1].run = "none"
  /\ instances[2].deferred = "deployed-cloud"
  /\ instances[2].run = "success"
  /\ instances[2].notification = "CloudLink"

\* C14: the 'Process instance started' notification is displayed only for a
\* run whose result reports success.
C14_NotificationOnlyOnStartedInstance ==
  \A i \in 1..MaxStarts :
    instances[i].notification # "none" => instances[i].run = "success"

\* C15: activeButton is false at first, becomes true exactly in the steps
\* that broadcast 'deploy', is false after every overlay close (which
\* broadcasts 'cancel') and every onClose of a receiver, and changes in no
\* other step; so whenever it is true, some 'deploy' was broadcast that no
\* close event followed.
C15_ActiveButtonFollowsDeploy ==
  /\ ~activeButton
  /\ [](activeButton => openDeploys # {})
  /\ [][ /\ event' = "deploy" => activeButton'
         /\ event' \in { "overlayClose", "onClose" } => ~activeButton'
         /\ event' = "overlayClose" => cancels' = cancels + 1
         /\ activeButton' # activeButton => event' \in { "deploy", "overlayClose", "onClose" }
       ]_pluginVars

\* The overlay was closed after a deploy was broadcast, and a second deploy
\* set the button again.
C15_Witness ==
  /\ activeButton
  /\ cancels = 1
  /\ openDeploys = { 2 }
  /\ instances[1].pc = "awaitDeploy"


\* ================================================================= *
\* DeployDiagramModal, as its tests describe it
\* (src/client/src/app/__tests__/DeployDiagramModalSpec.js, lines 1-398)
\* ================================================================= *

\* A string the form holds is the sequence of its pieces; '' is <<>>.
EndpointUrls ==
  { <<>>, <<"localhost">>, <<"ftp://", "localhost">>,
    <<"http://", "example.com">>, <<"https://", "localhost">> }

DeploymentNames == { <<>>, <<"deploymentName">> }

TenantIds == { <<>>, <<"tenantId">> }

\* What onDeploy does: it rejects with an error, resolves true, or resolves
\* false (the deployment was cancelled).
DeployOutcomes == { "rejected", "true", "false" }

\* The messages the modal shows.
SuccessMessage == <<"success message">>

ErrorMessageOf(outcome) == <<"error message">>

VARIABLES
  modalState,   \* this.state of the modal
  deployment    \* handleDeploy: "none", "pending", or how onDeploy settled last

modalVars == << modalState, deployment >>

ModalInit ==
  /\ modalState = [ endpointUrl |-> <<>>, tenantId |-> <<>>, deploymentName |-> <<>>,
                    isFormValid |-> FALSE,
                    isLoading |-> FALSE, success |-> <<>>, error |-> <<>> ]
  /\ deployment = "none"

\* validateForm: the endpoint url starts with http:// or https://, the
\* deployment name is not void.
validEndpointUrl(url) == Len(url) > 0 /\ url[1] \in { "http://", "https://" }

validateForm(state) ==
  [ state EXCEPT !.isFormValid =
      validEndpointUrl(state.endpointUrl) /\ Len(state.deploymentName) > 0 ]

\* handleDeploy up to the await of onDeploy.
handleDeployStart(state) ==
  [ state EXCEPT !.isLoading = TRUE, !.success = <<>>, !.error = <<>> ]

\* handleDeploy after onDeploy settled; the mutant leaves the loading
\* indicator on when the deployment was cancelled.
handleDeployEndKeepsLoading(state, outcome) ==
  CASE outcome = "rejected" ->
         [ state EXCEPT !.isLoading = FALSE, !.success = <<>>,
                        !.error = ErrorMessageOf(outcome) ]
    [] outcome = "true" ->
         [ state EXCEPT !.isLoading = FALSE, !.success = SuccessMessage, !.error = <<>> ]
    [] outcome = "false" -> state

handleDeployEnd(state, outcome) ==
  CASE outcome = "rejected" ->
         [ state EXCEPT !.isLoading = FALSE, !.success = <<>>,
                        !.error = ErrorMessageOf(outcome) ]
    [] outcome = "true" ->
         [ state EXCEPT !.isLoading = FALSE, !.success = SuccessMessage, !.error = <<>> ]
    [] outcome = "false" ->
         [ state EXCEPT !.isLoading = FALSE ]

HandleEndpointUrlChange(value) ==
  /\ modalState' = [ modalState EXCEPT !.endpointUrl = value ]
  /\ UNCHANGED deployment

HandleTenantIdChange(value) ==
  /\ modalState' = [ modalState EXCEPT !.tenantId = value ]
  /\ UNCHANGED deployment

HandleDeploymentNameChange(value) ==
  /\ modalState' = [ modalState EXCEPT !.deploymentName = value ]
  /\ UNCHANGED deployment

ValidateForm ==
  /\ modalState' = validateForm(modalState)
  /\ UNCHANGED deployment

\* handleDeploy is called on a valid form while no deployment is under way.
HandleDeploy ==
  /\ modalState.isFormValid
  /\ deployment # "pending"
  /\ modalState' = handleDeployStart(modalState)
  /\ deployment' = "pending"

OnDeploySettled(outcome) ==
  /\ deployment = "pending"
  /\ modalState' = handleDeployEnd(modalState, outcome)
  /\ deployment' = outcome

\* C12: once handleDeploy has completed on a valid form, isLoading is false,
\* and: error is a non-empty string and success '' if onDeploy rejected;
\* success is a non-empty string and error '' if it resolved true; both are ''
\* if it resolved false.
C12_DeployOutcomeExclusive ==
  /\ deployment \in DeployOutcomes => ~modalState.isLoading
  /\ deployment = "rejected" => (modalState.error # <<>> /\ modalState.success = <<>>)
  /\ deployment = "true" => (modalState.success # <<>> /\ modalState.error = <<>>)
  /\ deployment = "false" => (modalState.success = <<>> /\ modalState.error = <<>>)
  /\ deployment = "pending" => modalState.isLoading

\* A cancelled deployment of a valid form.
C12_Witness ==
  /\ deployment = "false"
  /\ ~modalState.isLoading
  /\ modalState.error = <<>>
  /\ modalState.endpointUrl = <<"http://", "example.com">>
  /\ modalState.deploymentName = <<"deploymentName">>


\* ================================================================= *
\* The file bridge: saveFile
\* (src/client/src/app/__tests__/DeployDiagramModalSpec.js, lines 400-474)
\* ================================================================= *

MaxSaves == 2

\* The diagram file objects the editor holds; an object is known by its index.
DiagramFileIds == 1..2

Contents == { "<v1/>", "<v2/>" }

NoError == "null"

HostErrors == { "EACCES" }

\* What the host names a saved diagram.
SavedAs ==
  { [ path |-> "/home/user/a.bpmn", name |-> "a.bpmn" ],
    [ path |-> "/tmp/b.bpmn", name |-> "b.bpmn" ] }

VARIABLES
  diagramFiles,  \* the diagram file objects: path, name, contents
  messages,      \* the messages sent through browser.send that await their response
  sent,          \* number of messages sent
  responses,     \* number of host responses delivered
  callbacks,     \* number of calls of a caller's callback
  bridgeCall     \* the last step of the bridge and what it passed on

bridgeVars == << diagramFiles, messages, sent, responses, callbacks, bridgeCall >>

NoBridgeCall ==
  [ op |-> "none", id |-> 0, file |-> 0, err |-> NoError, passed |-> 0,
    updatedDiagram |-> [ path |-> "", name |-> "", contents |-> "" ] ]

BridgeInit ==
  /\ diagramFiles =
       [ f \in DiagramFileIds |->
           IF f = 1 THEN [ path |-> "[unsaved]", name |-> "diagram_1.bpmn", contents |-> "<v1/>" ]
                    ELSE [ path |-> "/home/user/a.bpmn", name |-> "a.bpmn", contents |-> "<v2/>" ] ]
  /\ messages = {}
  /\ sent = 0
  /\ responses = 0
  /\ callbacks = 0
  /\ bridgeCall = NoBridgeCall

\* var diagram = { path: ..., name: ..., contents: ... }
diagramOf(diagramFile) ==
  [ path |-> diagramFile.path, name |-> diagramFile.name, contents |-> diagramFile.contents ]

\* The response handler's writes to diagramFile; the mutant also takes over
\* the contents the host sent back.
updateDiagramFileWithContents(diagramFile, updatedDiagram) ==
  [ diagramFile EXCEPT !.name = updatedDiagram.name, !.path = updatedDiagram.path,
                       !.contents = updatedDiagram.contents ]

updateDiagramFile(diagramFile, updatedDiagram) ==
  [ diagramFile EXCEPT !.name = updatedDiagram.name, !.path = updatedDiagram.path ]

\* saveFile(diagramFile, options, callback) up to the return of browser.send.
SaveFile(f, create) ==
  /\ sent < MaxSaves
  /\ sent' = sent + 1
  /\ messages' = messages \cup
       { [ id |-> sent + 1, channel |-> "file.save", create |-> create,
           diagram |-> diagramOf(diagramFiles[f]), file |-> f ] }
  /\ bridgeCall' = [ NoBridgeCall EXCEPT !.op = "saveFile", !.id = sent + 1, !.file = f ]
  /\ UNCHANGED << diagramFiles, responses, callbacks >>

\* The editor changes the contents of a diagram file, also while a save is
\* under way.
EditContents(f, contents) ==
  /\ diagramFiles[f].contents # contents
  /\ diagramFiles' = [ diagramFiles EXCEPT ![f].contents = contents ]
  /\ UNCHANGED << messages, sent, responses, callbacks, bridgeCall >>

\* function(err, updatedDiagram) with an error.
SaveFailed(m, err) ==
  /\ m \in messages
  /\ messages' = messages \ { m }
  /\ responses' = responses + 1
  /\ callbacks' = callbacks + 1
  /\ bridgeCall' = [ NoBridgeCall EXCEPT !.op = "failed", !.id = m.id, !.file = m.file,
                                         !.err = err ]
  /\ UNCHANGED << diagramFiles, sent >>

\* function(err, updatedDiagram) without an error: the host saved the diagram
\* it was sent under some path and name.
SaveSucceeded(m, as) ==
  /\ m \in messages
  /\ messages' = messages \ { m }
  /\ responses' = responses + 1
  /\ \E updatedDiagram \in { [ path |-> as.path, name |-> as.name,
                               contents |-> m.diagram.contents ] } :
       /\ diagramFiles' =
            [ diagramFiles EXCEPT ![m.file] = updateDiagramFile(@, updatedDiagram) ]
       /\ bridgeCall' = [ NoBridgeCall EXCEPT !.op = "saved", !.id = m.id, !.file = m.file,
                                              !.passed = m.file,
                                              !.updatedDiagram = updatedDiagram ]
  /\ callbacks' = callbacks + 1
  /\ UNCHANGED sent

\* C16: saveFile sends one 'file.save' message; every host response calls
\* the callback exactly once; an error response passes the error and leaves
\* the diagram file as it is; a success response sets the diagram file's name
\* and path to the updated diagram's, keeps its contents and passes that very
\* diagram file object to the callback.
C16_SaveFileCallback ==
  /\ [](callbacks = responses /\ Cardinality(messages) = sent - responses)
  /\ [][ /\ sent' # sent =>
              /\ sent' = sent + 1
              /\ bridgeCall'.op = "saveFile"
              /\ \E m \in messages' \ messages :
                   /\ messages' = messages \cup { m }
                   /\ m.channel = "file.save"
                   /\ m.diagram = diagramOf(diagramFiles[m.file])
              /\ callbacks' = callbacks
              /\ diagramFiles' = diagramFiles
         /\ responses' # responses =>
              /\ responses' = responses + 1
              /\ callbacks' = callbacks + 1
              /\ bridgeCall'.op \in { "failed", "saved" }
         /\ (responses' # responses /\ bridgeCall'.op = "failed") =>
              /\ bridgeCall'.err \in HostErrors
              /\ diagramFiles' = diagramFiles
         /\ (responses' # responses /\ bridgeCall'.op = "saved") =>
              /\ bridgeCall'.err = NoError
              /\ bridgeCall'.passed = bridgeCall'.file
              /\ diagramFiles'[bridgeCall'.file].name = bridgeCall'.updatedDiagram.name
              /\ diagramFiles'[bridgeCall'.file].path = bridgeCall'.updatedDiagram.path
              /\ diagramFiles'[bridgeCall'.file].contents = diagramFiles[bridgeCall'.file].contents
              /\ \A f \in DiagramFileIds \ { bridgeCall'.file } :
                   diagramFiles'[f] = diagramFiles[f]
       ]_bridgeVars

\* A new diagram was saved under a name of the host's while the editor had
\* changed its contents after the message was sent.
C16_Witness ==
  /\ bridgeCall.op = "saved"
  /\ bridgeCall.file = 1
  /\ diagramFiles[1].path = "/tmp/b.bpmn"
  /\ diagramFiles[1].name = "b.bpmn"
  /\ diagramFiles[1].contents # bridgeCall.updatedDiagram.contents
  /\ callbacks = 2


\* ================================================================= *
\* The link-dependencies task (src/tasks/link-dependencies.js, lines 1-145)
\* ================================================================= *

MaxListed == 3

\* The value of LINKED_DEPENDENCIES is a sequence of pieces: "," and "#" are
\* the separators, every other piece is a run of characters without them.
\* The entries a list is made of: with and without a ref, and the void entry
\* that a doubled or trailing comma leaves.
ListEntries ==
  { <<"bpmn-io/bpmn-js", "#", "develop">>,
    <<"bpmn-io/dmn-js", "#", "master">>,
    <<"foo/bar", "#", "v1">>,
    <<"foo/baz">>,
    <<>> }

RECURSIVE join(_, _)
join(entries, sep) ==
  IF Len(entries) = 0 THEN <<>>
  ELSE IF Len(entries) = 1 THEN entries[1]
  ELSE entries[1] \o <<sep>> \o join(Tail(entries), sep)

\* The values the environment variable may hold; Undefined is the unset variable.
LinkedDependenciesValues ==
  { Undefined } \cup
  { join(entries, ",") : entries \in UNION { [ 1..n -> ListEntries ] : n \in 0..MaxListed } }

\* String.prototype.split(sep)
RECURSIVE split(_, _)
split(str, sep) ==
  IF \A k \in 1..Len(str) : str[k] # sep THEN << str >>
  ELSE LET k == CHOOSE k \in 1..Len(str) :
                  /\ str[k] = sep
                  /\ \A j \in 1..(k - 1) : str[j] # sep
       IN  << SubSeq(str, 1, k - 1) >> \o split(SubSeq(str, k + 1, Len(str)), sep)

NotVoid(str) == Len(str) > 0

\* dependency => { repo, ref }, with [ repo, ref ] = dependency.split('#')
Dependency(dependency) ==
  LET parts == split(dependency, "#")
  IN  [ repo |-> parts[1],
        ref |-> IF Len(parts) >= 2 THEN parts[2] ELSE Undefined ]

getDependencies(value) ==
  LET rawDependencies == IF value = Undefined \/ value = <<>> THEN <<>> ELSE value
      dependenciesList == SelectSeq(split(rawDependencies, ","), NotVoid)
  IN  [ k \in 1..Len(dependenciesList) |-> Dependency(dependenciesList[k]) ]

\* customLinkersMap[dependency.repo] || linkFromGitHub; the mutant knows no
\* custom linker.
linkerOfGitHubOnly(repo) == "linkFromGitHub"

linkerOf(repo) ==
  IF repo = <<"bpmn-io/bpmn-js">> THEN "linkBpmnJs"
  ELSE IF repo = <<"bpmn-io/dmn-js">> THEN "linkDmnJs"
  ELSE "linkFromGitHub"

Running == -1

VARIABLES
  LINKED_DEPENDENCIES,  \* the environment variable
  dependencies,         \* the list getDependencies returned
  linkPc,               \* where linkDependencies stands
  linking,              \* index of the dependency the loop is at
  links,                \* the calls of a linker so far, in order, with their outcome
  exitCode,             \* the exit code of the process, Running until it ends
  dirDeleted,           \* del(dependenciesDir) was called
  dirCreated            \* fs.mkdirSync(dependenciesDir) was called

linkVars ==
  << LINKED_DEPENDENCIES, dependencies, linkPc, linking, links, exitCode, dirDeleted, dirCreated >>

\* The state when linkDependencies(dependencies) is entered.
LinkInitOf(value) ==
  /\ LINKED_DEPENDENCIES = value
  /\ dependencies = getDependencies(value)
  /\ linkPc = "start"
  /\ linking = 0
  /\ links = <<>>
  /\ exitCode = Running
  /\ dirDeleted = FALSE
  /\ dirCreated = FALSE

LinkOff == LinkInitOf(Undefined)

\* Lines 58-64: nothing to link, or the directory is made anew.
Prepare ==
  /\ linkPc = "start"
  /\ IF Len(dependencies) = 0
       THEN /\ linkPc' = "done"
            /\ exitCode' = 0
            /\ UNCHANGED << linking, dirDeleted, dirCreated >>
       ELSE /\ linkPc' = "loop"
            /\ linking' = 1
            /\ dirDeleted' = TRUE
            /\ dirCreated' = TRUE
            /\ UNCHANGED exitCode
  /\ UNCHANGED << LINKED_DEPENDENCIES, dependencies, links >>

\* Lines 66-79, one round of the loop: the linker runs to its end, or throws.
Link(ok) ==
  /\ linkPc = "loop"
  /\ links' = Append(links, [ dependency |-> dependencies[linking],
                              link |-> linkerOf(dependencies[linking].repo),
                              ok |-> ok ])
  /\ IF ~ok
       THEN /\ linkPc' = "exited"
            /\ exitCode' = 1
            /\ UNCHANGED linking
       ELSE IF linking = Len(dependencies)
         THEN /\ linkPc' = "done"
              /\ exitCode' = 0
              /\ UNCHANGED linking
         ELSE /\ linking' = linking + 1
              /\ UNCHANGED << linkPc, exitCode >>
  /\ UNCHANGED << LINKED_DEPENDENCIES, dependencies, dirDeleted, dirCreated >>

\* The entries listed in the variable, in their order: the pieces that
\* follow a comma or stand first, up to the next separator.
ListedAt ==
  IF LINKED_DEPENDENCIES = Undefined THEN {}
  ELSE { k \in 1..Len(LINKED_DEPENDENCIES) :
           /\ LINKED_DEPENDENCIES[k] \notin { ",", "#" }
           /\ (k = 1 \/ LINKED_DEPENDENCIES[k - 1] = ",") }

Listed(n) ==
  CHOOSE k \in ListedAt : Cardinality({ j \in ListedAt : j < k }) = n - 1

RefListed(n) ==
  LET k == Listed(n)
  IN  IF k + 2 <= Len(LINKED_DEPENDENCIES) /\ LINKED_DEPENDENCIES[k + 1] = "#"
        THEN << LINKED_DEPENDENCIES[k + 2] >>
        ELSE Undefined

\* C17: the linkers are called for the listed dependencies in their order,
\* one after the other, the custom linker for bpmn-io/bpmn-js and
\* bpmn-io/dmn-js and the GitHub install for every other repo; the first
\* failure ends the process with code 1 and nothing is linked after it; with
\* no dependency listed the dependencies directory is neither deleted nor
\* created.
C17_LinksInListedOrder ==
  /\ Len(links) <= Cardinality(ListedAt)
  /\ \A n \in 1..Len(links) :
       /\ links[n].dependency.repo = << LINKED_DEPENDENCIES[Listed(n)] >>
       /\ links[n].dependency.ref = RefListed(n)
       /\ links[n].link =
            CASE LINKED_DEPENDENCIES[Listed(n)] = "bpmn-io/bpmn-js" -> "linkBpmnJs"
              [] LINKED_DEPENDENCIES[Listed(n)] = "bpmn-io/dmn-js" -> "linkDmnJs"
              [] OTHER -> "linkFromGitHub"
       /\ n < Len(links) => links[n].ok
  /\ (links # <<>> /\ ~links[Len(links)].ok) <=> exitCode = 1
  /\ exitCode = 1 => linkPc = "exited"
  /\ linkPc = "done" => (exitCode = 0 /\ Len(links) = Cardinality(ListedAt))
  /\ ListedAt = {} => (links = <<>> /\ ~dirDeleted /\ ~dirCreated)
  /\ links # <<>> => (dirDeleted /\ dirCreated)

\* The second of three listed dependencies, an entry without a ref, failed
\* after a custom linker had linked the first; the third is never linked.
C17_Witness ==
  /\ LINKED_DEPENDENCIES =
       <<"bpmn-io/dmn-js", "#", "master", ",", "foo/baz", ",", "bpmn-io/bpmn-js", "#", "develop">>
  /\ Len(links) = 2
  /\ links[1].link = "linkDmnJs" /\ links[1].ok
  /\ links[2].link = "linkFromGitHub" /\ ~links[2].ok
  /\ links[2].dependency.ref = Undefined
  /\ exitCode = 1
  /\ linkPc = "exited"


\* ================================================================= *
\* The send-license-book-summary task (src/tasks/send-license-book-summary.js)
\* ================================================================= *

\* The output option: false by default, true or a file name when given.
OptionOff == "false"

OutputValues == { OptionOff, "true", "changes_summary.html" }

\* The arguments mri hands over.
Args == [ help : BOOLEAN, send : BOOLEAN, print : BOOLEAN, output : OutputValues ]

DefaultArgs == [ help |-> FALSE, send |-> FALSE, print |-> FALSE, output |-> OptionOff ]

\* getChangesSummary returns the html page, or null.
Null == "null"

Html == "<html>"

NotYet == "not yet"

AttachmentSentence == "Changes since last version can be found in the attachment."

\* The mutant speaks of the attachment whatever the changes summary is.
getMessageTextAlwaysAttachment(summary, changes) ==
  << summary, "Third party notices: ...", AttachmentSentence >>

getMessageText(summary, changes) ==
  << summary, "Third party notices: ..." >>
    \o (IF changes # Null THEN << AttachmentSentence >> ELSE <<>>)

getDraftEmail(summary, changes) ==
  [ subject |-> "Camunda Modeler Third Party Summary",
    text |-> getMessageText(summary, changes),
    attachment |-> changes ]

NoDraft == [ subject |-> "", text |-> <<>>, attachment |-> NotYet ]

\* The message sendEmail hands to transport.sendMail.
messageOf(draft) ==
  [ subject |-> draft.subject,
    text |-> draft.text,
    attachments |-> IF draft.attachment # Null
                      THEN << [ filename |-> "changes_summary.html", content |-> draft.attachment ] >>
                      ELSE <<>> ]

NoMail == [ subject |-> "", text |-> <<>>, attachments |-> <<>> ]

VARIABLES
  args,            \* the options of the run
  summaryPc,       \* where the run stands
  changesSummary,  \* what getChangesSummary returned
  draftEmail,      \* what getDraftEmail returned
  printed,         \* the draft was printed
  outputFile,      \* the file the changes summary was written to
  sentMail,        \* the message handed to transport.sendMail
  failedAt,        \* the step that threw or rejected
  summaryExit      \* the exit code of the process, Running until it ends

summaryVars ==
  << args, summaryPc, changesSummary, draftEmail, printed, outputFile, sentMail,
     failedAt, summaryExit >>

SummaryInitOf(a) ==
  /\ args = a
  /\ summaryPc = "start"
  /\ changesSummary = NotYet
  /\ draftEmail = NoDraft
  /\ printed = FALSE
  /\ outputFile = OptionOff
  /\ sentMail = NoMail
  /\ failedAt = "none"
  /\ summaryExit = Running

SummaryOff == SummaryInitOf(DefaultArgs)

\* The rejection handler of sendSummary(args): process.exit(1).
Fails(step) ==
  /\ summaryPc' = "failed"
  /\ failedAt' = step
  /\ summaryExit' = 1

\* Lines 52-73 and 93: the help text ends the run; else the previous version
\* is looked up with git, which may throw.
Start(ok) ==
  /\ summaryPc = "start"
  /\ IF args.help
       THEN /\ summaryPc' = "help"
            /\ summaryExit' = 0
            /\ UNCHANGED failedAt
       ELSE IF ok
         THEN /\ summaryPc' = "getSummary"
              /\ UNCHANGED << failedAt, summaryExit >>
         ELSE Fails("getPreviousVersion")
  /\ UNCHANGED << args, changesSummary, draftEmail, printed, outputFile, sentMail >>

\* await getSummary(), which may reject.
GetSummary(ok) ==
  /\ summaryPc = "getSummary"
  /\ IF ok
       THEN /\ summaryPc' = "getChangesSummary"
            /\ UNCHANGED << failedAt, summaryExit >>
       ELSE Fails("getSummary")
  /\ UNCHANGED << args, changesSummary, draftEmail, printed, outputFile, sentMail >>

\* Lines 103-115: the changes summary, or null when the diff or the page
\* could not be made; the draft email; the print.
GetChangesSummary(changes) ==
  /\ summaryPc = "getChangesSummary"
  /\ changesSummary' = changes
  /\ draftEmail' = getDraftEmail("summary", changes)
  /\ printed' = args.print
  /\ summaryPc' = "output"
  /\ UNCHANGED << args, outputFile, sentMail, failedAt, summaryExit >>

\* Lines 117-123: fs.writeFileSync(output, changesSummary), which may throw.
Output(ok) ==
  /\ summaryPc = "output"
  /\ IF args.output # OptionOff /\ changesSummary # Null
       THEN IF ok
              THEN /\ outputFile' = args.output
                   /\ summaryPc' = "send"
                   /\ UNCHANGED << failedAt, summaryExit >>
              ELSE /\ Fails("writeFileSync")
                   /\ UNCHANGED outputFile
       ELSE /\ summaryPc' = "send"
            /\ UNCHANGED << outputFile, failedAt, summaryExit >>
  /\ UNCHANGED << args, changesSummary, draftEmail, printed, sentMail >>

\* Lines 125-129 and 75-82: the email is sent if asked for; the run is done
\* when transport.sendMail resolves, and fails when it rejects.
Send(ok) ==
  /\ summaryPc = "send"
  /\ IF args.send
       THEN /\ sentMail' = messageOf(draftEmail)
            /\ IF ok
                 THEN /\ summaryPc' = "done"
                      /\ summaryExit' = 0
                      /\ UNCHANGED failedAt
                 ELSE Fails("sendEmail")
       ELSE /\ summaryPc' = "done"
            /\ summaryExit' = 0
            /\ UNCHANGED << sentMail, failedAt >>
  /\ UNCHANGED << args, changesSummary, draftEmail, printed, outputFile >>

\* C18: the email is sent only if the send option is set; the output file is
\* written only if the output option is set and a changes summary was
\* generated; when the changes summary could not be generated the run goes
\* on: the draft has no attachment and no attachment sentence, no step before
\* the sending fails, and the email is sent if send is set.
C18_SendAndOutputOnlyOnOption ==
  /\ sentMail # NoMail => args.send
  /\ outputFile # OptionOff =>
       (args.output # OptionOff /\ outputFile = args.output /\ changesSummary = Html)
  /\ changesSummary = Null =>
       /\ draftEmail.attachment = Null
       /\ \A k \in 1..Len(draftEmail.text) : draftEmail.text[k] # AttachmentSentence
       /\ outputFile = OptionOff
       /\ failedAt \in { "none", "sendEmail" }
       /\ sentMail # NoMail => (sentMail.attachments = <<>> /\ sentMail.text = draftEmail.text)
       /\ (args.send /\ summaryPc \in { "done", "failed" }) => sentMail # NoMail
  /\ (summaryPc = "done" /\ args.send) => sentMail # NoMail
  /\ changesSummary = Html =>
       /\ draftEmail.attachment = Html
       /\ \E k \in 1..Len(draftEmail.text) : draftEmail.text[k] = AttachmentSentence

\* A run with send and output set whose changes summary could not be
\* generated: it is done, the email went out without attachment, no file
\* was written.
C18_Witness ==
  /\ summaryPc = "done"
  /\ args.send
  /\ args.output = "changes_summary.html"
  /\ changesSummary = Null
  /\ sentMail # NoMail
  /\ sentMail.attachments = <<>>
  /\ outputFile = OptionOff
  /\ summaryExit = 0

\* ----------------------------------------------------- the specifications

\* Each component is checked in a specification of its own, in which the
\* other components stay as they are constructed.

DialogOff ==
  /\ config = Undefined
  /\ defaultPath = Undefined
  /\ _dialogs = Undefined
  /\ call = Call("none", "none", NoOptions, Undefined, NoBuild, <<>>, EmptySpec,
                 UndefinedValue, "none", "none", UndefinedValue, <<>>)

\* The Dialog: any sequence of getDialogOptions and showDialog calls.
Init ==
  /\ config \in PersistedPaths
  /\ defaultPath = Undefined
  /\ _dialogs = Undefined
  /\ call = Call("none", "none", NoOptions, config, NoBuild, <<>>, EmptySpec,
                 UndefinedValue, "none", "none", UndefinedValue, <<>>)
  /\ PluginInit
  /\ ModalInit
  /\ BridgeInit
  /\ LinkOff
  /\ SummaryOff

Next ==
  \E type \in RequestTypes, opts \in Options :
    \/ GetDialogOptions(type, opts) /\ UNCHANGED << pluginVars, modalVars, bridgeVars, linkVars, summaryVars >>
    \/ ShowDialog(type, opts) /\ UNCHANGED << pluginVars, modalVars, bridgeVars, linkVars, summaryVars >>

Spec == Init /\ [][Next]_vars

\* The StartInstancePlugin: startInstance calls, the receiver of their
\* messages and the overlay.
PluginNext ==
  \/ \E i \in 1..MaxStarts : StartInstance(i) /\ UNCHANGED << vars, modalVars, bridgeVars, linkVars, summaryVars >>
  \/ \E i \in 1..MaxStarts, result \in DeployResults : Done(i, result) /\ UNCHANGED << vars, modalVars, bridgeVars, linkVars, summaryVars >>
  \/ \E i \in 1..MaxStarts : AfterDeploy(i) /\ UNCHANGED << vars, modalVars, bridgeVars, linkVars, summaryVars >>
  \/ \E i \in 1..MaxStarts, outcome \in RunOutcomes : AfterRun(i, outcome) /\ UNCHANGED << vars, modalVars, bridgeVars, linkVars, summaryVars >>
  \/ OnOverlayClose /\ UNCHANGED << vars, modalVars, bridgeVars, linkVars, summaryVars >>
  \/ \E i \in 1..MaxStarts : OnClose(i) /\ UNCHANGED << vars, modalVars, bridgeVars, linkVars, summaryVars >>

InitPlugin == PluginInit /\ DialogOff /\ ModalInit /\ BridgeInit /\ LinkOff /\ SummaryOff

SpecPlugin == InitPlugin /\ [][PluginNext]_<< vars, pluginVars >>

\* The DeployDiagramModal: the user edits the form, validates and deploys.
ModalNext ==
  \/ \E value \in EndpointUrls :
       HandleEndpointUrlChange(value) /\ UNCHANGED << vars, pluginVars, bridgeVars, linkVars, summaryVars >>
  \/ \E value \in TenantIds :
       HandleTenantIdChange(value) /\ UNCHANGED << vars, pluginVars, bridgeVars, linkVars, summaryVars >>
  \/ \E value \in DeploymentNames :
       HandleDeploymentNameChange(value) /\ UNCHANGED << vars, pluginVars, bridgeVars, linkVars, summaryVars >>
  \/ ValidateForm /\ UNCHANGED << vars, pluginVars, bridgeVars, linkVars, summaryVars >>
  \/ HandleDeploy /\ UNCHANGED << vars, pluginVars, bridgeVars, linkVars, summaryVars >>
  \/ \E outcome \in DeployOutcomes :
       OnDeploySettled(outcome) /\ UNCHANGED << vars, pluginVars, bridgeVars, linkVars, summaryVars >>

InitModal == ModalInit /\ DialogOff /\ PluginInit /\ BridgeInit /\ LinkOff /\ SummaryOff

SpecModal == InitModal /\ [][ModalNext]_<< vars, modalVars >>

\* The file bridge: the editor saves and edits diagram files, the host responds.
BridgeNext ==
  \/ \E f \in DiagramFileIds, create \in BOOLEAN :
       SaveFile(f, create) /\ UNCHANGED << vars, pluginVars, modalVars, linkVars, summaryVars >>
  \/ \E f \in DiagramFileIds, contents \in Contents :
       EditContents(f, contents) /\ UNCHANGED << vars, pluginVars, modalVars, linkVars, summaryVars >>
  \/ \E m \in messages, err \in HostErrors :
       SaveFailed(m, err) /\ UNCHANGED << vars, pluginVars, modalVars, linkVars, summaryVars >>
  \/ \E m \in messages, as \in SavedAs :
       SaveSucceeded(m, as) /\ UNCHANGED << vars, pluginVars, modalVars, linkVars, summaryVars >>

InitBridge == BridgeInit /\ DialogOff /\ PluginInit /\ ModalInit /\ LinkOff /\ SummaryOff

SpecBridge == InitBridge /\ [][BridgeNext]_<< vars, bridgeVars >>

\* The link-dependencies task, run once for each value of the variable.
LinkNext ==
  \/ Prepare /\ UNCHANGED << vars, pluginVars, modalVars, bridgeVars, summaryVars >>
  \/ \E ok \in BOOLEAN :
       Link(ok) /\ UNCHANGED << vars, pluginVars, modalVars, bridgeVars, summaryVars >>

InitLink ==
  /\ \E value \in LinkedDependenciesValues : LinkInitOf(value)
  /\ DialogOff /\ PluginInit /\ ModalInit /\ BridgeInit /\ SummaryOff

SpecLink == InitLink /\ [][LinkNext]_<< vars, linkVars >>

\* The send-license-book-summary task, run once for each choice of options.
SummaryNext ==
  \/ \E ok \in BOOLEAN :
       Start(ok) /\ UNCHANGED << vars, pluginVars, modalVars, bridgeVars, linkVars >>
  \/ \E ok \in BOOLEAN :
       GetSummary(ok) /\ UNCHANGED << vars, pluginVars, modalVars, bridgeVars, linkVars >>
  \/ \E changes \in { Html, Null } :
       GetChangesSummary(changes)
         /\ UNCHANGED << vars, pluginVars, modalVars, bridgeVars, linkVars >>
  \/ \E ok \in BOOLEAN :
       Output(ok) /\ UNCHANGED << vars, pluginVars, modalVars, bridgeVars, linkVars >>
  \/ \E ok \in BOOLEAN :
       Send(ok) /\ UNCHANGED << vars, pluginVars, modalVars, bridgeVars, linkVars >>

InitSummary ==
  /\ \E a \in Args : SummaryInitOf(a)
  /\ DialogOff /\ PluginInit /\ ModalInit /\ BridgeInit /\ LinkOff

SpecSummary == InitSummary /\ [][SummaryNext]_<< vars, summaryVars >>

=============================================================================
